---- MODULE Spec2Model ----
(***************************************************************************)
(* A model of bugzilla-data: the BugzillaData class of src/bz_data.py and  *)
(* the command line driver of src/scripts/make_plot.py.                    *)
(*                                                                         *)
(* Python values are modelled as follows.                                  *)
(*   - an optional value (None or v) is a sequence of length at most one:  *)
(*     <<>> is None, <<v>> is v.  self.query and self.creds are optional.  *)
(*   - self.queries is None or a list of more than one query; None is the  *)
(*     empty sequence (both are falsy, and the code only tests truth).     *)
(*   - a query mapping is a record: keys is the set of filter keys that    *)
(*     are present among status and product, status and product hold the   *)
(*     filter values (<<>> when the key is absent) and component stands    *)
(*     for the filters the program passes through without looking at them. *)
(*   - a string that the program builds is the sequence of its pieces.     *)
(*   - the search service (python-bugzilla) is the environment: every call *)
(*     of login, query and logout returns or raises as the environment     *)
(*     chooses, and every call is appended to the log "calls".             *)
(***************************************************************************)
EXTENDS Integers, Sequences, FiniteSets, TLC

\* Bounds of the model.
MaxQueries == 2      \* entries in the query file
MaxResult == 1       \* bug records one query call returns, under Spec
PlotMaxResult == 2   \* bug records one query call returns, under SpecPlot
MainMaxResult == 1   \* bug records one query call returns, under SpecMain
MaxAccesses == 2     \* operations a caller performs on one instance

VARIABLES
    queryFile,       \* the file at args.query: [readable, entries]
    credFile,        \* the file at args.credential_file: [readable, entries]
    cmdline,         \* the command line as given
    args,            \* the parsed command line, as main updates it
    pc,              \* "new", "ready" (constructed), "exited" (sys.exit)
    query,           \* self.query
    queries,         \* self.queries
    creds,           \* self.creds
    login_required,  \* self.login_required
    plot_style,      \* self.plot_style
    bugs,            \* the cached_property slot: [cached, value]
    calls,           \* every call made to the search service, in order
    stdout,          \* everything printed, in order
    plotCalls,       \* number of calls of generate_plot so far
    charts,          \* every chart drawn by generate_plot, in order
    reports,         \* every report file written by generate_report, in order
    exitStatus,      \* <<>> while running, <<n>> once the process has ended
    accesses,        \* number of reads of self.bugs so far
    lastRead,        \* the latest read of self.bugs: whether the function
                     \* ran, its calls, whether it raised and, when it
                     \* returned, the answer to each query and its value
    ret,             \* what the latest operation returned or raised
    mainPc           \* position of make_plot.main; "lib" when a caller drives

vars == <<queryFile, credFile, cmdline, args, pc, query, queries, creds, login_required,
          plot_style, bugs, calls, stdout, plotCalls, charts, reports,
          exitStatus,
          accesses, lastRead, ret, mainPc>>

-----------------------------------------------------------------------------
\* Data

QueryPath == "conf/query.yaml"
CredPath == "conf/credentials.yaml"

\* Bug records as the search service returns them.
Bugs == { [id |-> 1, component |-> "A", creator |-> "x"],
          [id |-> 2, component |-> "B", creator |-> "x"] }

PlotStyles == {"component", "creator"}

RECURSIVE SeqsUpTo(_, _)
SeqsUpTo(S, n) ==
    IF n = 0 THEN { <<>> }
    ELSE LET shorter == SeqsUpTo(S, n - 1)
         IN shorter \cup { Append(s, x) : s \in { t \in shorter : Len(t) = n - 1 }, x \in S }

MkQuery(hasStatus, status, hasProduct, product, component) ==
    [ keys |-> (IF hasStatus THEN {"status"} ELSE {})
               \cup (IF hasProduct THEN {"product"} ELSE {}),
      status |-> IF hasStatus THEN status ELSE <<>>,
      product |-> IF hasProduct THEN product ELSE <<>>,
      component |-> component ]

\* The i-th query of the query files used for fetching: the fetch passes the
\* mapping to the service unread, so the entries only need to differ.
FetchQuery(i) ==
    MkQuery(i % 2 = 1, <<"NEW", "ASSIGNED">>, i % 3 # 0, <<"Widget">>, i)

QueryEntry(q) == [query |-> q]

FetchFiles ==
    { [readable |-> TRUE, entries |-> [i \in 1..n |-> QueryEntry(FetchQuery(i))]] :
        n \in 1..MaxQueries }

MissingFile == [readable |-> FALSE, entries |-> <<>>]

Login == [username |-> "user", password |-> "secret"]

\* A credential file: unreadable, one entry without login_info, or one entry
\* with login_info.
CredFiles ==
    { MissingFile,
      [readable |-> TRUE, entries |-> << [login_info |-> <<>>] >>],
      [readable |-> TRUE, entries |-> << [login_info |-> <<Login>>] >>] }

\* What the service answers to the query calls of one fetch of n queries: the
\* records it returns to the first k calls, k <= n; when k < n the call after
\* them raises (and the fetch makes no further query call).
ResponseSeqs(n, maxLen) ==
    UNION { [1..k -> SeqsUpTo(Bugs, maxLen)] : k \in 0..n }

\* The calls of the log: login(username, password), query(q), logout().
LoginCall(c, ok) ==
    [op |-> "login", query |-> <<>>, creds |-> <<c.username, c.password>>, ok |-> ok]
QueryCall(q, ok) == [op |-> "query", query |-> <<q>>, creds |-> <<>>, ok |-> ok]
LogoutCall(ok) == [op |-> "logout", query |-> <<>>, creds |-> <<>>, ok |-> ok]

NoCredsError == "BugzillaError: No creds available to log into Bugzilla"
ServiceError == "error raised by the search service"

DefaultArgs ==
    [query |-> QueryPath, credential_file |-> CredPath, login |-> FALSE,
     plot |-> "component", save |-> FALSE, output |-> FALSE,
     noplot |-> FALSE, report |-> FALSE]

-----------------------------------------------------------------------------
\* BugzillaData.__init__

\* The query file is parsed: more than one entry fills self.queries, one entry
\* fills self.query.
ParsedQueries(file) ==
    IF Len(file.entries) > 1
    THEN [i \in 1..Len(file.entries) |-> file.entries[i].query]
    ELSE <<>>

ParsedQuery(file) ==
    IF Len(file.entries) > 1 THEN <<>> ELSE <<file.entries[1].query>>

\* The credential file is parsed; an unreadable file leaves self.creds None.
ParsedCreds(file) ==
    IF file.readable THEN file.entries[1].login_info ELSE <<>>

MissingQueryFileMessage(path) ==
    [kind |-> "diagnostic", query |-> <<>>,
     text |-> <<"IOError: Query file not present at ", path, ", exiting...">>]

\* A constructor that prints the diagnostic and carries on with the fields as
\* they are instead of ending the process.
BugzillaDataInitCarryingOn(a) ==
    /\ plot_style' = a.plot
    /\ login_required' = a.login
    /\ pc' = "ready"
    /\ UNCHANGED exitStatus
    /\ IF queryFile.readable
       THEN /\ queries' = ParsedQueries(queryFile)
            /\ query' = ParsedQuery(queryFile)
            /\ creds' = ParsedCreds(credFile)
            /\ UNCHANGED stdout
       ELSE /\ stdout' = Append(stdout, MissingQueryFileMessage(a.query))
            /\ creds' = ParsedCreds(credFile)
            /\ UNCHANGED <<queries, query>>

\* BugzillaData.__init__: the effect of BugzillaData(a.query, a.url, a.plot,
\* login=a.login, credential_file=a.credential_file) on the instance and on
\* the process.
BugzillaData_init(a) ==
    /\ plot_style' = a.plot
    /\ login_required' = a.login
    /\ IF queryFile.readable
       THEN /\ queries' = ParsedQueries(queryFile)
            /\ query' = ParsedQuery(queryFile)
            /\ creds' = ParsedCreds(credFile)
            /\ pc' = "ready"
            /\ UNCHANGED <<stdout, exitStatus>>
       ELSE /\ stdout' = Append(stdout, MissingQueryFileMessage(a.query))
            /\ exitStatus' = <<1>>
            /\ pc' = "exited"
            /\ UNCHANGED <<queries, query, creds>>

-----------------------------------------------------------------------------
\* BugzillaData.bugs

\* What a piece of code did: whether it raised and what, the bugs it gathered,
\* its calls to the service (log), the answer to each query call that returned
\* (results) and what it printed (out).
NoEffect ==
    [raised |-> FALSE, error |-> "", bugs |-> <<>>, log |-> <<>>,
     results |-> <<>>, out |-> <<>>]

\* An extend that skips the records already gathered.
ExtendUnique(bs, more) ==
    bs \o SelectSeq(more, LAMBDA b : \A i \in 1..Len(bs) : bs[i] # b)

\* bugs.extend(more)
Extend(bs, more) == bs \o more

Announce(q) == [kind |-> "query", query |-> <<q>>, text |-> <<>>]

\* The loop "for query in self.queries: print(query); bugs.extend(query(query))"
\* from its i-th iteration on; a raising call ends it.
RECURSIVE QueryLoop(_, _, _, _, _)
QueryLoop(qs, resp, i, announce, acc) ==
    IF i > Len(qs) THEN acc
    ELSE LET said == IF announce THEN Append(acc.out, Announce(qs[i])) ELSE acc.out
             raises == i > Len(resp)
             called == Append(acc.log, QueryCall(qs[i], ~raises))
         IN IF raises
            THEN [acc EXCEPT !.raised = TRUE, !.error = ServiceError,
                             !.log = called, !.out = said]
            ELSE QueryLoop(qs, resp, i + 1, announce,
                           [acc EXCEPT !.bugs = Extend(@, resp[i]),
                                       !.results = Append(@, resp[i]),
                                       !.log = called, !.out = said])

\* The body both branches of bugs share: every query of self.queries, or
\* self.query alone.
RunQueries(resp) ==
    IF queries # <<>>
    THEN QueryLoop(queries, resp, 1, TRUE, NoEffect)
    ELSE QueryLoop(query, resp, 1, FALSE, NoEffect)

\* A context manager that looks at the credentials only once the body has run.
LoggedInCheckingCredsLate(loginOk, logoutOk, body) ==
    IF creds = <<>>
    THEN [body EXCEPT !.raised = TRUE, !.error = NoCredsError]
    ELSE IF ~loginOk
    THEN [NoEffect EXCEPT !.raised = TRUE, !.error = ServiceError,
                          !.log = <<LoginCall(creds[1], FALSE)>>]
    ELSE IF body.raised
    THEN [body EXCEPT !.log = <<LoginCall(creds[1], TRUE)>> \o @]
    ELSE [body EXCEPT !.log = <<LoginCall(creds[1], TRUE)>> \o @ \o <<LogoutCall(logoutOk)>>,
                      !.raised = ~logoutOk,
                      !.error = IF logoutOk THEN "" ELSE ServiceError]

\* A context manager that swallows a failed login and runs the body anyway.
LoggedInIgnoringLoginFailure(loginOk, logoutOk, body) ==
    IF creds = <<>>
    THEN [NoEffect EXCEPT !.raised = TRUE, !.error = NoCredsError]
    ELSE IF body.raised
    THEN [body EXCEPT !.log = <<LoginCall(creds[1], loginOk)>> \o @]
    ELSE [body EXCEPT !.log = <<LoginCall(creds[1], loginOk)>> \o @ \o <<LogoutCall(logoutOk)>>,
                      !.raised = ~logoutOk,
                      !.error = IF logoutOk THEN "" ELSE ServiceError]

\* "with self.logged_into_bugzilla(): body": without creds it raises before
\* any call; login may raise; a raising body is re-raised; otherwise logout.
logged_into_bugzilla(loginOk, logoutOk, body) ==
    IF creds = <<>>
    THEN [NoEffect EXCEPT !.raised = TRUE, !.error = NoCredsError]
    ELSE IF ~loginOk
    THEN [NoEffect EXCEPT !.raised = TRUE, !.error = ServiceError,
                          !.log = <<LoginCall(creds[1], FALSE)>>]
    ELSE IF body.raised
    THEN [body EXCEPT !.log = <<LoginCall(creds[1], TRUE)>> \o @]
    ELSE [body EXCEPT !.log = <<LoginCall(creds[1], TRUE)>> \o @ \o <<LogoutCall(logoutOk)>>,
                      !.raised = ~logoutOk,
                      !.error = IF logoutOk THEN "" ELSE ServiceError]

\* The function under @cached_property.
FetchBugs(loginOk, logoutOk, resp) ==
    IF login_required
    THEN logged_into_bugzilla(loginOk, logoutOk, RunQueries(resp))
    ELSE RunQueries(resp)

\* A read of self.bugs: the stored value when there is one, else the function
\* runs and its value is stored when it returns.
ReadCached == [NoEffect EXCEPT !.bugs = bugs.value]

\* The ways the environment can answer one run of the function, each once:
\* <<login returns, logout returns, the answers to the query calls>>.  Login
\* and logout are called only with login required and credentials at hand; a
\* failed login leaves no query call to answer, and logout is reached only
\* when every query call returned.
FetchInputs(maxLen) ==
    LET n == IF queries # <<>> THEN Len(queries) ELSE 1
        session == login_required /\ creds # <<>>
    IN IF login_required /\ creds = <<>>
       THEN { <<TRUE, TRUE, <<>> >> }
       ELSE { <<TRUE, TRUE, r>> : r \in ResponseSeqs(n, maxLen) }
            \cup (IF session
                  THEN { <<FALSE, TRUE, <<>> >> }
                       \cup { <<TRUE, FALSE, r>> :
                                r \in { t \in ResponseSeqs(n, maxLen) : Len(t) = n } }
                  ELSE {})

\* The state change of a read of self.bugs whose outcome is r, but for what
\* it prints (r.out), which the operation adds to stdout with its own output.
Accessed(r) ==
    /\ bugs' = IF bugs.cached \/ r.raised THEN bugs
               ELSE [cached |-> TRUE, value |-> r.bugs]
    /\ calls' = calls \o r.log
    /\ lastRead' = [ran |-> ~bugs.cached, raised |-> r.raised, error |-> r.error,
                    log |-> r.log,
                    results |-> IF r.raised THEN <<>> ELSE r.results,
                    bugs |-> IF r.raised THEN <<>> ELSE r.bugs]
    /\ accesses' = accesses + 1

\* A bugs without the cache: the function runs at every read.
BugsOutcomesUncached(maxLen) ==
    { FetchBugs(in[1], in[2], in[3]) : in \in FetchInputs(maxLen) }

\* The outcomes a read of self.bugs can have in the current state.
BugsOutcomes(maxLen) ==
    IF bugs.cached THEN { ReadCached }
    ELSE { FetchBugs(in[1], in[2], in[3]) : in \in FetchInputs(maxLen) }

\* What an operation hands back to its caller: an exception, or a value of one
\* of the kinds "bugs", "plot_data", "text" and "none".
Raised(r) ==
    [kind |-> "raise", error |-> r.error, bugs |-> <<>>, table |-> <<>>,
     xvals |-> {}, text |-> <<>>]
Returned(kind, b, t, x, txt) ==
    [kind |-> kind, error |-> "", bugs |-> b, table |-> t, xvals |-> x, text |-> txt]
NoReturn == Returned("none", <<>>, <<>>, {}, <<>>)

-----------------------------------------------------------------------------
\* BugzillaData.title and BugzillaData.product

\* query.get(key, ""): the filter values, or the empty string.
Get(q, key) == IF key \in q.keys THEN q[key] ELSE <<>>

\* chain.from_iterable(lists)
RECURSIVE Chain(_)
Chain(lists) ==
    IF lists = <<>> THEN <<>> ELSE Head(lists) \o Chain(Tail(lists))

Elems(s) == { s[i] : i \in 1..Len(s) }

\* list(dict.fromkeys(s)): every value once, at the place of its first
\* occurrence.
RECURSIVE FromKeys(_, _)
FromKeys(s, seen) ==
    IF s = <<>> THEN <<>>
    ELSE IF Head(s) \in seen THEN FromKeys(Tail(s), seen)
    ELSE <<Head(s)>> \o FromKeys(Tail(s), seen \cup {Head(s)})

\* The values title and product join: de-duplicated across self.queries, or
\* those of self.query as they stand.
FilterValues(key) ==
    IF queries # <<>>
    THEN FromKeys(Chain([i \in 1..Len(queries) |-> Get(queries[i], key)]), {})
    ELSE Get(query[1], key)

\* sep.join(map(str, s)), as the sequence of the pieces of the string.
RECURSIVE Join(_, _)
Join(sep, s) ==
    IF s = <<>> THEN <<>>
    ELSE IF Len(s) = 1 THEN s
    ELSE <<Head(s), sep>> \o Join(sep, Tail(s))

\* str.capitalize() on the field names in use.
Capitalize(s) ==
    CASE s = "component" -> "Component"
      [] s = "creator" -> "Creator"
      [] OTHER -> s

title ==
    Join(", ", FilterValues("status")) \o <<" BZ's sorted by ", Capitalize(plot_style)>>

product == Join(", ", FilterValues("product"))

-----------------------------------------------------------------------------
\* BugzillaData.get_plot_data and BugzillaData.generate_plot

\* bz_data.count(attr)
Count(data, v) == Cardinality({ i \in 1..Len(data) : data[i] = v })

\* [getattr(bug, self.plot_style) for bug in self.bugs]
BzData(bs) == [i \in 1..Len(bs) |-> bs[i][plot_style]]

\* The counts as a list with one pair per record instead of a dict.
BzCountsPerRecord(data) ==
    [i \in 1..Len(data) |-> <<data[i], Count(data, data[i])>>]

\* The items of {attr: bz_data.count(attr) for attr in bz_data}: a dict keeps
\* its keys in the order of their first insertion.
BzCounts(data) ==
    LET ks == FromKeys(data, {})
    IN [i \in 1..Len(ks) |-> <<ks[i], Count(data, ks[i])>>]

\* A sort that puts an item ahead of the items of equal count placed before it.
InsertByCountAhead(sorted, item) ==
    LET ahead == Cardinality({ j \in 1..Len(sorted) : sorted[j][2] > item[2] })
    IN SubSeq(sorted, 1, ahead) \o <<item>> \o SubSeq(sorted, ahead + 1, Len(sorted))

\* One step of the stable sort by count, largest first: the item goes behind
\* every item already placed whose count is not smaller.
InsertByCount(sorted, item) ==
    LET ahead == Cardinality({ j \in 1..Len(sorted) : sorted[j][2] >= item[2] })
    IN SubSeq(sorted, 1, ahead) \o <<item>> \o SubSeq(sorted, ahead + 1, Len(sorted))

\* sorted(items, key=lambda item: item[1], reverse=True)
RECURSIVE SortedCounts(_)
SortedCounts(items) ==
    IF items = <<>> THEN <<>>
    ELSE InsertByCount(SortedCounts(SubSeq(items, 1, Len(items) - 1)), items[Len(items)])

\* range(len(sorted_counts))
XVals(sorted) == 0..(Len(sorted) - 1)

\* What get_plot_data returns for the fetched records bs.
get_plot_data(bs) ==
    LET sorted == SortedCounts(BzCounts(BzData(bs)))
    IN [xvals |-> XVals(sorted), sorted_counts |-> sorted]

\* The chart generate_plot draws from the plot data d.
Chart(d, save) ==
    [ xvals |-> d.xvals,
      heights |-> [i \in 1..Len(d.sorted_counts) |-> d.sorted_counts[i][2]],
      xticks |-> [i \in 1..Len(d.sorted_counts) |-> d.sorted_counts[i][1]],
      ylabel |-> "BZ Count",
      title |-> title,
      annotation |-> IF product # <<>> THEN <<product>> ELSE <<>>,
      saved |-> IF save THEN << <<plot_style, ".png">> >> ELSE <<>> ]

-----------------------------------------------------------------------------
\* Operations of a caller that holds one instance

Construct ==
    /\ pc = "new"
    /\ mainPc = "lib"
    /\ BugzillaData_init(args)
    /\ UNCHANGED <<queryFile, credFile, cmdline, args, bugs, calls, plotCalls,
                   charts, reports,
                   accesses, lastRead, ret, mainPc>>

\* The caller reads bz_data.bugs.
ReadBugs ==
    /\ pc = "ready"
    /\ mainPc = "lib"
    /\ accesses < MaxAccesses
    /\ \E r \in BugsOutcomes(MaxResult) :
         /\ Accessed(r)
         /\ stdout' = stdout \o r.out
         /\ ret' = IF r.raised THEN Raised(r) ELSE Returned("bugs", r.bugs, <<>>, {}, <<>>)
    /\ UNCHANGED <<queryFile, credFile, cmdline, args, pc, query, queries, creds,
                   login_required, plot_style, plotCalls, charts, reports, exitStatus,
                   mainPc>>

\* The caller calls bz_data.get_plot_data(); the service answers each query
\* with at most maxLen records.
CallGetPlotData(maxLen) ==
    /\ pc = "ready"
    /\ mainPc = "lib"
    /\ accesses < MaxAccesses
    /\ \E r \in BugsOutcomes(maxLen) :
         /\ Accessed(r)
         /\ stdout' = stdout \o r.out
         /\ ret' = IF r.raised THEN Raised(r)
                   ELSE LET d == get_plot_data(r.bugs)
                        IN Returned("plot_data", <<>>, d.sorted_counts, d.xvals, <<>>)
    /\ UNCHANGED <<queryFile, credFile, cmdline, args, pc, query, queries, creds,
                   login_required, plot_style, plotCalls, charts, reports, exitStatus,
                   mainPc>>

GetPlotData == CallGetPlotData(MaxResult)

Tabulate == CallGetPlotData(PlotMaxResult)

\* The caller calls bz_data.generate_plot(save=save).
GeneratePlot ==
    /\ pc = "ready"
    /\ mainPc = "lib"
    /\ accesses < MaxAccesses
    /\ \E save \in BOOLEAN :
       \E r \in BugsOutcomes(MaxResult) :
         /\ Accessed(r)
         /\ stdout' = stdout \o r.out
         /\ ret' = IF r.raised THEN Raised(r) ELSE NoReturn
         /\ plotCalls' = plotCalls + 1
         /\ charts' = IF r.raised THEN charts
                      ELSE Append(charts, Chart(get_plot_data(r.bugs), save))
    /\ UNCHANGED <<queryFile, credFile, cmdline, args, pc, query, queries, creds,
                   login_required, plot_style, reports, exitStatus, mainPc>>

\* The caller reads bz_data.title.
ReadTitle ==
    /\ pc = "ready"
    /\ mainPc = "lib"
    /\ ret' = Returned("title", <<>>, <<>>, {}, title)
    /\ UNCHANGED <<queryFile, credFile, cmdline, args, pc, query, queries, creds,
                   login_required, plot_style, bugs, calls, stdout, plotCalls, charts,
                   reports, exitStatus, accesses, lastRead, mainPc>>

\* The caller reads bz_data.product.
ReadProduct ==
    /\ pc = "ready"
    /\ mainPc = "lib"
    /\ ret' = Returned("product", <<>>, <<>>, {}, product)
    /\ UNCHANGED <<queryFile, credFile, cmdline, args, pc, query, queries, creds,
                   login_required, plot_style, bugs, calls, stdout, plotCalls, charts,
                   reports, exitStatus, accesses, lastRead, mainPc>>

-----------------------------------------------------------------------------
\* make_plot.main, one statement at a time.  An exception no statement
\* catches ends the process ("crashed").

\* One block of the textual report: the identifier and the key fields of a
\* record, the empty string for a field the record lacks.
ReportBlock(b) ==
    [bug_id |-> b.id, creator |-> b.creator, summary |-> "", status |-> "",
     qa_contact |-> "", assigned_to |-> ""]

\* What generate_output returns for the fetched records bs.
generate_output(bs) == [i \in 1..Len(bs) |-> ReportBlock(bs[i])]

\* The report file generate_report writes for the fetched records bs.
generate_report(bs) == [i \in 1..Len(bs) |-> bs[i].id]

Crash(r) ==
    /\ mainPc' = "crashed"
    /\ exitStatus' = <<1>>
    /\ ret' = Raised(r)

\* args.output = True if args.noplot else args.output
EffectiveArgs(a) == [a EXCEPT !.output = IF a.noplot THEN TRUE ELSE a.output]

\* "args.output = ..." and "bz_data = BugzillaData(...)".
MainStart ==
    /\ mainPc = "start"
    /\ args' = EffectiveArgs(args)
    /\ BugzillaData_init(args')
    /\ mainPc' = IF pc' = "exited" THEN "exited" ELSE "output"
    /\ UNCHANGED <<queryFile, credFile, cmdline, bugs, calls, plotCalls, charts,
                   reports,
                   accesses, lastRead, ret>>

\* "if args.output: print(bz_data.generate_output())"
MainOutput ==
    /\ mainPc = "output"
    /\ IF args.output
       THEN \E r \in BugsOutcomes(MainMaxResult) :
              /\ Accessed(r)
              /\ IF r.raised
                 THEN /\ Crash(r)
                      /\ stdout' = stdout \o r.out
                 ELSE /\ stdout' = stdout \o r.out
                                 \o <<[kind |-> "report", query |-> <<>>,
                                       text |-> generate_output(r.bugs)]>>
                      /\ mainPc' = "report"
                      /\ UNCHANGED <<exitStatus, ret>>
       ELSE /\ mainPc' = "report"
            /\ UNCHANGED <<bugs, calls, lastRead, accesses, stdout, exitStatus, ret>>
    /\ UNCHANGED <<queryFile, credFile, cmdline, args, pc, query, queries, creds,
                   login_required, plot_style, plotCalls, charts, reports>>

\* "if args.report: bz_data.generate_report()"
MainReport ==
    /\ mainPc = "report"
    /\ IF args.report
       THEN \E r \in BugsOutcomes(MainMaxResult) :
              /\ Accessed(r)
              /\ stdout' = stdout \o r.out
              /\ IF r.raised
                 THEN /\ Crash(r)
                      /\ UNCHANGED reports
                 ELSE /\ reports' = Append(reports, generate_report(r.bugs))
                      /\ mainPc' = "plot"
                      /\ UNCHANGED <<exitStatus, ret>>
       ELSE /\ mainPc' = "plot"
            /\ UNCHANGED <<bugs, calls, lastRead, accesses, stdout, reports,
                           exitStatus, ret>>
    /\ UNCHANGED <<queryFile, credFile, cmdline, args, pc, query, queries, creds,
                   login_required, plot_style, plotCalls, charts>>

\* A main that draws the chart whatever --noplot says.
PlotAlways == TRUE

\* Whether main calls generate_plot: "if not args.noplot".
PlotWanted == ~args.noplot

\* "if not args.noplot: bz_data.generate_plot(save=args.save)", and the end
\* of main.
MainPlot ==
    /\ mainPc = "plot"
    /\ IF PlotWanted
       THEN \E r \in BugsOutcomes(MainMaxResult) :
              /\ Accessed(r)
              /\ stdout' = stdout \o r.out
              /\ plotCalls' = plotCalls + 1
              /\ IF r.raised
                 THEN /\ Crash(r)
                      /\ UNCHANGED charts
                 ELSE /\ charts' = Append(charts, Chart(get_plot_data(r.bugs), args.save))
                      /\ mainPc' = "done"
                      /\ exitStatus' = <<0>>
                      /\ UNCHANGED ret
       ELSE /\ mainPc' = "done"
            /\ exitStatus' = <<0>>
            /\ UNCHANGED <<bugs, calls, lastRead, accesses, stdout, plotCalls,
                           charts, ret>>
    /\ UNCHANGED <<queryFile, credFile, cmdline, args, pc, query, queries, creds,
                   login_required, plot_style, reports>>

-----------------------------------------------------------------------------
\* Specifications

InitCommon ==
    /\ pc = "new"
    /\ query = <<>>
    /\ queries = <<>>
    /\ creds = <<>>
    /\ login_required = FALSE
    /\ plot_style = ""
    /\ bugs = [cached |-> FALSE, value |-> <<>>]
    /\ calls = <<>>
    /\ stdout = <<>>
    /\ plotCalls = 0
    /\ charts = <<>>
    /\ reports = <<>>
    /\ exitStatus = <<>>
    /\ accesses = 0
    /\ lastRead = [ran |-> FALSE, raised |-> FALSE, error |-> "", log |-> <<>>,
                   results |-> <<>>, bugs |-> <<>>]
    /\ ret = NoReturn

Init ==
    /\ queryFile \in FetchFiles \cup {MissingFile}
    /\ cmdline \in { [DefaultArgs EXCEPT !.login = l, !.plot = p] :
                       l \in BOOLEAN, p \in PlotStyles }
    /\ args = cmdline
    /\ mainPc = "lib"
    /\ credFile \in CredFiles
    /\ InitCommon

Next ==
    \/ Construct
    \/ ReadBugs
    \/ GetPlotData
    \/ GeneratePlot

Spec == Init /\ [][Next]_vars

\* get_plot_data over longer answers of the service, login not required.
InitPlot ==
    /\ queryFile \in FetchFiles
    /\ cmdline \in { [DefaultArgs EXCEPT !.plot = p] : p \in PlotStyles }
    /\ args = cmdline
    /\ mainPc = "lib"
    /\ credFile = MissingFile
    /\ InitCommon

NextPlot ==
    \/ Construct
    \/ Tabulate

SpecPlot == InitPlot /\ [][NextPlot]_vars

\* The constructor, title and product over query files of every shape.
StatusLists == { <<"NEW">>, <<"NEW", "NEW">>, <<"NEW", "ASSIGNED">>, <<"ASSIGNED", "NEW">> }
ProductLists == { <<"Widget">>, <<"Gadget", "Widget">> }

TitleQueries ==
    { MkQuery(TRUE, s, TRUE, p, 0) : s \in StatusLists, p \in ProductLists }
    \cup { MkQuery(TRUE, s, FALSE, <<>>, 0) : s \in StatusLists }
    \cup { MkQuery(FALSE, <<>>, TRUE, p, 0) : p \in ProductLists }
    \cup { MkQuery(FALSE, <<>>, FALSE, <<>>, 0) }

TitleFiles ==
    { [readable |-> TRUE, entries |-> [i \in 1..Len(qs) |-> QueryEntry(qs[i])]] :
        qs \in SeqsUpTo(TitleQueries, MaxQueries) \ { <<>> } }

InitTitle ==
    /\ queryFile \in TitleFiles \cup {MissingFile}
    /\ cmdline \in { [DefaultArgs EXCEPT !.plot = p] : p \in PlotStyles }
    /\ args = cmdline
    /\ mainPc = "lib"
    /\ credFile \in CredFiles
    /\ InitCommon

NextTitle ==
    \/ Construct
    \/ ReadTitle
    \/ ReadProduct

SpecTitle == InitTitle /\ [][NextTitle]_vars

\* One run of make_plot.main.
InitMain ==
    /\ queryFile \in FetchFiles \cup {MissingFile}
    /\ cmdline \in { [DefaultArgs EXCEPT !.login = l, !.noplot = n, !.output = o,
                                          !.report = r, !.save = s] :
                       l \in BOOLEAN, n \in BOOLEAN, o \in BOOLEAN,
                       r \in BOOLEAN, s \in BOOLEAN }
    /\ args = cmdline
    /\ mainPc = "start"
    /\ credFile \in CredFiles
    /\ InitCommon

NextMain ==
    \/ MainStart
    \/ MainOutput
    \/ MainReport
    \/ MainPlot

SpecMain == InitMain /\ [][NextMain]_vars

-----------------------------------------------------------------------------
\* Vocabulary of the properties

\* The positions of the calls of one operation in a log.
At(log, op) == { i \in 1..Len(log) : log[i].op = op }

IsQueryCall(e) == e.op = "query"

\* The mappings the query calls of a log were given, in call order.
QueriesOf(log) ==
    LET qc == SelectSeq(log, IsQueryCall)
    IN [i \in 1..Len(qc) |-> qc[i].query[1]]

\* The queries of the query file, in declaration order.
FileQueries == [i \in 1..Len(queryFile.entries) |-> queryFile.entries[i].query]

\* The function under bugs has just run (the read was not served from the
\* stored value).
FetchRan == lastRead.ran

LoginReturned(log) == Len(log) > 0 /\ log[1].op = "login" /\ log[1].ok

\* Position of the first occurrence of v in s (0 when there is none).
FirstIndex(s, v) ==
    IF \E i \in 1..Len(s) : s[i] = v
    THEN CHOOSE i \in 1..Len(s) : s[i] = v /\ \A j \in 1..(i - 1) : s[j] # v
    ELSE 0

RECURSIVE SumCounts(_)
SumCounts(t) == IF t = <<>> THEN 0 ELSE Head(t)[2] + SumCounts(Tail(t))

-----------------------------------------------------------------------------
\* C1: when login is required and credentials are available, a fetch whose
\* login returned calls logout exactly once, after every other call, whether
\* the queries returned or one of them raised.
C1_LogoutOnEveryExit ==
    (FetchRan /\ login_required /\ creds # <<>> /\ LoginReturned(lastRead.log))
        => /\ Cardinality(At(lastRead.log, "logout")) = 1
           /\ lastRead.log[Len(lastRead.log)].op = "logout"

C3_TableCoversRecords ==
    ret.kind = "plot_data"
        => LET observed == { bugs.value[i][plot_style] : i \in 1..Len(bugs.value) }
           IN /\ { ret.table[i][1] : i \in 1..Len(ret.table) } = observed
              /\ Len(ret.table) = Cardinality(observed)
              /\ SumCounts(ret.table) = Len(bugs.value)
              /\ ret.xvals = 0..(Cardinality(observed) - 1)

C3_Witness ==
    /\ ret.kind = "plot_data"
    /\ Len(bugs.value) >= 3
    /\ Len(ret.table) = 2

\* C4: the frequency table is ordered by count, largest first, and two
\* entries with equal counts stand in the order in which their values first
\* occurred among the fetched records.
C4_SortedByCountStable ==
    ret.kind = "plot_data"
        => LET data == [i \in 1..Len(bugs.value) |-> bugs.value[i][plot_style]]
           IN \A i, j \in 1..Len(ret.table) :
                i < j =>
                  /\ ret.table[i][2] >= ret.table[j][2]
                  /\ ret.table[i][2] = ret.table[j][2]
                       => FirstIndex(data, ret.table[i][1]) < FirstIndex(data, ret.table[j][1])

C4_Witness ==
    /\ ret.kind = "plot_data"
    /\ Len(ret.table) = 2
    /\ ret.table[1][2] = ret.table[2][2]
    /\ ret.table[1][1] = "B"
    /\ Len(bugs.value) = 4

\* C5: with an unreadable credential file the constructor still succeeds and
\* leaves no credentials; then a fetch with login required fails with the
\* authentication error and no call at all is made to the service, and with
\* login not required the queries run with no login or logout call, all of
\* them when the fetch returns.
C5_UnreadableCredentials ==
    (~credFile.readable /\ queryFile.readable /\ pc # "new")
        => /\ pc = "ready"
           /\ creds = <<>>
           /\ login_required
                => /\ calls = <<>>
                   /\ ~bugs.cached
                   /\ FetchRan => (lastRead.raised /\ lastRead.error = NoCredsError)
           /\ ~login_required
                => /\ At(calls, "login") \cup At(calls, "logout") = {}
                   /\ (FetchRan /\ ~lastRead.raised)
                        => QueriesOf(lastRead.log) = FileQueries

C5_Witness ==
    /\ ~credFile.readable
    /\ login_required
    /\ FetchRan
    /\ lastRead.raised
    /\ Len(queries) = 2

\* C6: a fetch that returns has called the service once per entry of the query
\* file, in declaration order, and the fetched records are the answers to
\* those calls joined in that order, nothing dropped.
C6_ConcatenationInOrder ==
    (FetchRan /\ ~lastRead.raised)
        => /\ QueriesOf(lastRead.log) = FileQueries
           /\ Len(lastRead.results) = Len(FileQueries)
           /\ lastRead.bugs = Chain(lastRead.results)
           /\ bugs = [cached |-> TRUE, value |-> lastRead.bugs]

C6_Witness ==
    /\ FetchRan
    /\ ~lastRead.raised
    /\ Len(FileQueries) = 2
    /\ lastRead.results[1] # <<>>
    /\ lastRead.results[1] = lastRead.results[2]
    /\ Len(bugs.value) = 2 * Len(lastRead.results[1])

\* C7: when the query file cannot be opened the constructor ends the process
\* with exit status 1 after printing one diagnostic that names the path, and
\* the run makes no call to the service and draws no chart.
C7_MissingQueryFileExits ==
    (~queryFile.readable /\ mainPc # "start")
        => /\ mainPc = "exited"
           /\ pc = "exited"
           /\ exitStatus = <<1>>
           /\ Len(stdout) = 1
           /\ stdout[1].kind = "diagnostic"
           /\ \E i \in 1..Len(stdout[1].text) : stdout[1].text[i] = cmdline.query
           /\ calls = <<>>
           /\ charts = <<>>
           /\ accesses = 0

C7_Witness ==
    /\ ~queryFile.readable
    /\ mainPc = "exited"
    /\ cmdline.login

\* C8: with --noplot, whatever --output is, generate_plot is never called and
\* a run that reaches the end of main has printed the textual report of the
\* fetched records; without --noplot such a run has called generate_plot
\* exactly once.
C8_NoplotSuppressesChart ==
    /\ plotCalls <= 1
    /\ Len(charts) <= plotCalls
    /\ cmdline.noplot => plotCalls = 0
    /\ mainPc = "done"
         => /\ cmdline.noplot
                 => \E i \in 1..Len(stdout) :
                      /\ stdout[i].kind = "report"
                      /\ stdout[i].text = generate_output(bugs.value)
            /\ ~cmdline.noplot => (plotCalls = 1 /\ Len(charts) = 1)

C8_Witness ==
    /\ mainPc = "done"
    /\ cmdline.noplot
    /\ ~cmdline.output
    /\ Len(bugs.value) >= 2

\* The values a title or a product label embeds: the pieces between the
\* separators.
Embedded(text) == [i \in 1..((Len(text) + 1) \div 2) |-> text[2 * i - 1]]

\* The status part of a title: what stands before " BZ's sorted by ".
StatusPart(text) == SubSeq(text, 1, Len(text) - 2)

\* s holds the values of the given filter of all the queries of the file, each
\* once, in the order in which they are first seen.
FirstSeenOnce(s, key) ==
    LET all == Chain([i \in 1..Len(FileQueries) |-> Get(FileQueries[i], key)])
    IN /\ Elems(s) = Elems(all)
       /\ Len(s) = Cardinality(Elems(all))
       /\ \A i, j \in 1..Len(s) :
            i < j => FirstIndex(all, s[i]) < FirstIndex(all, s[j])

\* C9: for one query or several, the title embeds the status values of all
\* queries in first-seen order with every duplicate removed, and the product
\* label does the same with the product values (empty when no query has a
\* product key).
C9_TitleValuesDeduplicated ==
    /\ ret.kind = "title" => FirstSeenOnce(Embedded(StatusPart(ret.text)), "status")
    /\ ret.kind = "product" => FirstSeenOnce(Embedded(ret.text), "product")

\* C10 as stated: a fetch with login required calls login exactly once, runs
\* no query unless login returned and runs every query between the login and
\* the logout; a fetch without login required never calls login or logout
\* and, when it returns, has executed every query.
C10_LoginExactlyOnce ==
    FetchRan =>
        IF login_required
        THEN /\ Cardinality(At(lastRead.log, "login")) = 1
             /\ At(lastRead.log, "query") # {} => LoginReturned(lastRead.log)
             /\ \A q \in At(lastRead.log, "query") :
                  /\ \A l \in At(lastRead.log, "login") : l < q
                  /\ \A o \in At(lastRead.log, "logout") : q < o
        ELSE /\ At(lastRead.log, "login") \cup At(lastRead.log, "logout") = {}
             /\ ~lastRead.raised => QueriesOf(lastRead.log) = FileQueries

\* C10 as amended: with login required and credentials available the fetch
\* calls login exactly once, as its first call; with login required and no
\* credentials it makes no call and raises; in both cases no query runs unless
\* login returned, and every query call comes after the login and before the
\* logout.  Without login required it never calls login or logout and, when it
\* returns, has executed every query.
C10_LoginDiscipline ==
    FetchRan =>
        IF login_required
        THEN /\ creds # <<>> => (At(lastRead.log, "login") = {1})
             /\ creds = <<>> => (lastRead.log = <<>> /\ lastRead.raised)
             /\ At(lastRead.log, "query") # {} => LoginReturned(lastRead.log)
             /\ \A q \in At(lastRead.log, "query") :
                  /\ \A l \in At(lastRead.log, "login") : l < q
                  /\ \A o \in At(lastRead.log, "logout") : q < o
        ELSE /\ At(lastRead.log, "login") \cup At(lastRead.log, "logout") = {}
             /\ ~lastRead.raised => QueriesOf(lastRead.log) = FileQueries

C10_Witness ==
    /\ FetchRan
    /\ login_required
    /\ ~lastRead.raised
    /\ Len(queries) = 2
    /\ Len(lastRead.log) = 4

====
